---- MODULE Spec2Model ----
(***************************************************************************)
(* Labeled file discovery and paired shuffling of fenwicks' io module      *)
(* (src/io.py): enum_files, shuffle_paths_labels, find_files and           *)
(* find_files_with_label_csv.                                              *)
(*                                                                         *)
(* Every function is a single-shot call.  A behaviour is one call: Init    *)
(* draws the function called, its arguments and the environment it reads   *)
(* (the directory tree under data_dir, the rows of the csv file); the      *)
(* action of that function runs it to its end and records how it ended     *)
(* (outcome) and what it returned (ret).                                   *)
(***************************************************************************)
EXTENDS FiniteSets, Integers, Sequences, TLC

VARIABLES
    op,       \* the function called
    args,     \* its arguments
    env,      \* what the call reads: directory tree and csv rows
    outcome,  \* "pending" before the call ran, then "ok" or the exception raised
    ret       \* <<>> while nothing was returned, else <<the returned tuple>>

vars == <<op, args, env, outcome, ret>>

----------------------------------------------------------------------------
(* Bounds of the model                                                     *)

MaxLen == 3        \* longest list handed to shuffle_paths_labels directly
MaxLabels == 2     \* longest label-name list handed to find_files
MaxRows == 3       \* most rows of the csv manifest
MaxExplicit == 2   \* longest explicit _labels list

(* The values the inputs are drawn from.                                   *)
LabelValues == {"bird", "cat", "dog"}
ExplicitValues == {"cat", "dog"}
DataDirs == {"data", "gs://bucket/data/"}
FileExts == {"jpg", "png"}
Ids == {7, 12}
PathValues == {"p", "q"}
IndexValues == {0, 1}

(* A file of a directory is its stem and its extension.                    *)
File(stem, ext) == [stem |-> stem, ext |-> ext]

(* Directory listings, in the order the listing capability reports them.  *)
Listings ==
    { <<>>,
      <<File("a", "jpg")>>,
      <<File("b", "jpg"), File("a", "jpg")>>,
      <<File("n", "png"), File("a", "jpg")>> }

----------------------------------------------------------------------------
(* Generic helpers                                                         *)

Range(s) == {s[k] : k \in 1..Len(s)}

SeqsUpTo(S, n) == UNION {[1..m -> S] : m \in 0..n}

Min(a, b) == IF a <= b THEN a ELSE b

----------------------------------------------------------------------------
(* Python and library primitives the functions are built from             *)

(* How a call ends: normally with a value, or with an exception.           *)
Return(value) == [exc |-> "ok", value |-> <<value>>]

Raise(exception) == [exc |-> exception, value |-> <<>>]

(* The code points of the strings compared by sorted().                    *)
CodePoints(s) ==
    CASE s = "bird" -> <<98, 105, 114, 100>>
      [] s = "cat" -> <<99, 97, 116>>
      [] s = "dog" -> <<100, 111, 103>>

(* Python's < on two strings: lexicographic on code points.                *)
RECURSIVE SeqLess(_, _)
SeqLess(a, b) ==
    IF a = <<>> THEN b # <<>>
    ELSE IF b = <<>> THEN FALSE
    ELSE IF a[1] # b[1] THEN a[1] < b[1]
    ELSE SeqLess(Tail(a), Tail(b))

StrLess(a, b) == SeqLess(CodePoints(a), CodePoints(b))

(* pandas Series.unique(): the distinct values, in order of appearance.    *)
RECURSIVE unique(_)
unique(s) ==
    IF s = <<>> THEN <<>>
    ELSE LET u == unique(SubSeq(s, 1, Len(s) - 1))
             x == s[Len(s)]
         IN  IF x \in Range(u) THEN u ELSE Append(u, x)

RECURSIVE Insert(_, _)
Insert(x, s) ==
    IF s = <<>> THEN <<x>>
    ELSE IF StrLess(x, s[1]) THEN <<x>> \o s
    ELSE <<s[1]>> \o Insert(x, Tail(s))

sorted_unsorted(s) == s

(* sorted(): a new list, ascending and stable.                             *)
RECURSIVE sorted(_)
sorted(s) ==
    IF s = <<>> THEN <<>>
    ELSE Insert(s[Len(s)], sorted(SubSeq(s, 1, Len(s) - 1)))

enumerate_from_one(s) == [k \in 1..Len(s) |-> <<k, s[k]>>]

(* enumerate(): the pairs (index, item), indices counted from 0.           *)
enumerate(s) == [k \in 1..Len(s) |-> <<k - 1, s[k]>>]

(* zip(a, b): the pairs up to the end of the shorter list.                 *)
zip(a, b) == [k \in 1..Min(Len(a), Len(b)) |-> <<a[k], b[k]>>]

Times_once(s, n) == s

(* s * n: the list s repeated n times.                                     *)
RECURSIVE Times(_, _)
Times(s, n) == IF n <= 0 THEN <<>> ELSE s \o Times(s, n - 1)

(* str() of a non-negative integer, as an f-string formats it.             *)
Digit(d) ==
    CASE d = 0 -> "0" [] d = 1 -> "1" [] d = 2 -> "2" [] d = 3 -> "3"
      [] d = 4 -> "4" [] d = 5 -> "5" [] d = 6 -> "6" [] d = 7 -> "7"
      [] d = 8 -> "8" [] d = 9 -> "9"

RECURSIVE IntStr(_)
IntStr(n) == IF n < 10 THEN Digit(n) ELSE IntStr(n \div 10) \o Digit(n % 10)

(* Whether a directory argument ends with the path separator.              *)
EndsWithSep(a) == a \in {"gs://bucket/data/"}

(* os.path.join(a, b) for a relative b: one separator between the two,     *)
(* none when a is empty or already ends with one.                          *)
join(a, b) ==
    IF a = "" \/ EndsWithSep(a) THEN a \o b ELSE a \o "/" \o b

(* random.shuffle(c): c reordered in place by some permutation.            *)
Shuffles(c) ==
    { [k \in 1..Len(c) |-> c[p[k]]] : p \in Permutations(1..Len(c)) }

(* An optional argument: None, or a value.                                 *)
None == <<>>

Some(x) == <<x>>

(* The name of a file, and its full path in a directory.                   *)
FileName(f) == f.stem \o "." \o f.ext

(* A directory that does not exist, and one that lists the given files.    *)
NoDir == [exists |-> FALSE, files |-> <<>>]

Dir(files) == [exists |-> TRUE, files |-> files]

(* tf.gfile.Glob(dir/*.file_ext) on the tree fs: the full paths of the     *)
(* files of dir with that extension, in listing order; nothing matches     *)
(* under a directory that does not exist, and that is no error.            *)
Glob(fs, dir, file_ext) ==
    IF dir \in DOMAIN fs /\ fs[dir].exists
    THEN LET hits == SelectSeq(fs[dir].files, LAMBDA f : f.ext = file_ext)
         IN  [k \in 1..Len(hits) |-> join(dir, FileName(hits[k]))]
    ELSE <<>>

(* pd.read_csv(csv_fn): the rows of the manifest, in file order.           *)
read_csv(e, csv_fn) == e.csv

----------------------------------------------------------------------------
(* The functions of src/io.py                                              *)

enum_files_reversed(fs, data_dir, file_ext) ==
    LET m == Glob(fs, data_dir, file_ext)
    IN  [k \in 1..Len(m) |-> m[Len(m) + 1 - k]]

enum_files_unmatched_pattern(fs, data_dir, file_ext) ==
    LET file_pattern == join(data_dir, "*." \o file_ext)
        matching_files == Glob(fs, data_dir, file_ext)
    IN  IF matching_files = <<>> THEN <<file_pattern>> ELSE matching_files

(* enum_files(data_dir, file_ext) on the tree fs: whatever the glob of     *)
(* the pattern data_dir/*.file_ext matches.                                *)
enum_files(fs, data_dir, file_ext) == Glob(fs, data_dir, file_ext)

(* The unpacking "paths, labels = zip of the pairs of c" and the return of *)
(* the two as lists.  The zip yields one tuple per column of c, so none    *)
(* when c is empty, and unpacking into two names then raises ValueError.   *)
unzip(c) ==
    { IF c = <<>> THEN Raise("ValueError")
      ELSE Return(<<[k \in 1..Len(c) |-> c[k][1]],
                    [k \in 1..Len(c) |-> c[k][2]]>>) }

(* The ways shuffle_paths_labels(paths, labels) can end.                   *)
shuffle_paths_labels(paths, labels) ==
    UNION { unzip(c) : c \in Shuffles(zip(paths, labels)) }

(* filepaths and filelabels after the first n rounds of find_files' loop.  *)
RECURSIVE find_files_loop(_, _, _, _, _)
find_files_loop(fs, data_dir, labels, file_ext, n) ==
    IF n = 0 THEN [filepaths |-> <<>>, filelabels |-> <<>>]
    ELSE LET before == find_files_loop(fs, data_dir, labels, file_ext, n - 1)
             i == enumerate(labels)[n][1]
             label == enumerate(labels)[n][2]
             matching_files == enum_files(fs, join(data_dir, label), file_ext)
         IN  [filepaths |-> before.filepaths \o matching_files,
              filelabels |->
                  before.filelabels \o Times(<<i>>, Len(matching_files))]

(* The ways find_files(data_dir, labels, shuffle, file_ext) can end.       *)
find_files(fs, data_dir, labels, shuffle, file_ext) ==
    LET found == find_files_loop(fs, data_dir, labels, file_ext, Len(labels))
    IN  IF shuffle
        THEN shuffle_paths_labels(found.filepaths, found.filelabels)
        ELSE {Return(<<found.filepaths, found.filelabels>>)}

(* key_id = dict([(label, idx) for idx, label in enumerate(labels)]): the  *)
(* last pair of a repeated label is the one the dict keeps.                *)
key_id(labels) ==
    [l \in Range(labels) |->
        enumerate(labels)[CHOOSE k \in 1..Len(labels) :
            /\ labels[k] = l
            /\ \A j \in (k + 1)..Len(labels) : labels[j] # l][1]]

getitem_or_zero(d, key) == Return(IF key \in DOMAIN d THEN d[key] ELSE 0)

(* d[key]: the value, or KeyError when the dict has no such key.           *)
getitem(d, key) == IF key \in DOMAIN d THEN Return(d[key]) ELSE Raise("KeyError")

row_path_no_dir(data_dir, row, id_col, file_ext) ==
    IntStr(row[id_col]) \o "." \o file_ext

(* os.path.join(data_dir, f'{row[id_col]}.{file_ext}'): the path of a row. *)
row_path(data_dir, row, id_col, file_ext) ==
    join(data_dir, IntStr(row[id_col]) \o "." \o file_ext)

(* How the first n rounds of find_files_with_label_csv's loop end: with    *)
(* filepaths and filelabels, or with the KeyError of the first row whose   *)
(* label key_id lacks.                                                     *)
RECURSIVE csv_loop(_, _, _, _, _, _, _)
csv_loop(train_labels, keys, data_dir, file_ext, id_col, label_col, n) ==
    IF n = 0 THEN Return([filepaths |-> <<>>, filelabels |-> <<>>])
    ELSE LET before == csv_loop(train_labels, keys, data_dir, file_ext,
                                id_col, label_col, n - 1)
             row == train_labels[n]
             path == row_path(data_dir, row, id_col, file_ext)
             idx == getitem(keys, row[label_col])
         IN  IF before.exc # "ok" THEN before
             ELSE IF idx.exc # "ok" THEN idx
             ELSE Return([filepaths |-> Append(before.value[1].filepaths, path),
                          filelabels |->
                              Append(before.value[1].filelabels, idx.value[1])])

(* The ways find_files_with_label_csv(...) can end.                        *)
find_files_with_label_csv(e, data_dir, csv_fn, shuffle, file_ext, id_col, label_col, _labels) ==
    LET train_labels == read_csv(e, csv_fn)
        labels == IF _labels = None
                  THEN sorted(unique([k \in 1..Len(train_labels) |->
                                         train_labels[k][label_col]]))
                  ELSE _labels[1]
        loop == csv_loop(train_labels, key_id(labels), data_dir, file_ext,
                         id_col, label_col, Len(train_labels))
    IN  IF loop.exc # "ok" THEN {loop}
        ELSE IF shuffle
        THEN { IF r.exc # "ok" THEN r
               ELSE Return(<<r.value[1][1], r.value[1][2], labels>>)
               : r \in shuffle_paths_labels(loop.value[1].filepaths,
                                             loop.value[1].filelabels) }
        ELSE {Return(<<loop.value[1].filepaths, loop.value[1].filelabels,
                       labels>>)}

----------------------------------------------------------------------------
(* The calls                                                               *)

NoEnv == [root_exists |-> TRUE, fs |-> <<>>, csv |-> <<>>]

SubDirs(data_dir) == {join(data_dir, l) : l \in LabelValues}

(* The directory trees under data_dir: no subdirectory exists when the     *)
(* root does not.                                                          *)
Trees(data_dir) ==
    { [root_exists |-> TRUE, fs |-> fs, csv |-> <<>>] :
        fs \in [SubDirs(data_dir) -> {NoDir} \cup {Dir(l) : l \in Listings}] }
    \cup { [root_exists |-> FALSE,
            fs |-> [d \in SubDirs(data_dir) |-> NoDir], csv |-> <<>>] }

Manifests ==
    { [root_exists |-> TRUE, fs |-> <<>>, csv |-> rows] :
        rows \in SeqsUpTo([id : Ids, label : LabelValues], MaxRows) }

InitShuffle ==
    /\ op = "shuffle_paths_labels"
    /\ args \in [paths : SeqsUpTo(PathValues, MaxLen),
                  labels : SeqsUpTo(IndexValues, MaxLen)]
    /\ env = NoEnv

InitFindFiles ==
    /\ op = "find_files"
    /\ args \in [data_dir : DataDirs, labels : SeqsUpTo(LabelValues, MaxLabels),
                  shuffle : BOOLEAN, file_ext : FileExts]
    /\ env \in Trees(args.data_dir)

InitCsv ==
    /\ op = "find_files_with_label_csv"
    /\ args \in [data_dir : DataDirs, csv_fn : {"train.csv"}, shuffle : BOOLEAN,
                  file_ext : {"jpg"}, id_col : {"id"}, label_col : {"label"},
                  _labels : {None} \cup
                      {Some(l) : l \in SeqsUpTo(ExplicitValues, MaxExplicit)}]
    /\ env \in Manifests

Init ==
    /\ InitShuffle \/ InitFindFiles \/ InitCsv
    /\ outcome = "pending"
    /\ ret = <<>>

Ends(r) ==
    /\ outcome' = r.exc
    /\ ret' = r.value
    /\ UNCHANGED <<op, args, env>>

ShufflePathsLabels ==
    /\ op = "shuffle_paths_labels" /\ outcome = "pending"
    /\ \E r \in shuffle_paths_labels(args.paths, args.labels) : Ends(r)

FindFiles ==
    /\ op = "find_files" /\ outcome = "pending"
    /\ \E r \in find_files(env.fs, args.data_dir, args.labels, args.shuffle,
                            args.file_ext) : Ends(r)

FindFilesWithLabelCsv ==
    /\ op = "find_files_with_label_csv" /\ outcome = "pending"
    /\ \E r \in find_files_with_label_csv(env, args.data_dir, args.csv_fn,
                      args.shuffle, args.file_ext, args.id_col, args.label_col,
                      args._labels) : Ends(r)

Next == ShufflePathsLabels \/ FindFiles \/ FindFilesWithLabelCsv

Spec == Init /\ [][Next]_vars

----------------------------------------------------------------------------
(* Vocabulary of the properties                                            *)

Done == outcome # "pending"

Returned == outcome = "ok"

Labeled == op \in {"find_files", "find_files_with_label_csv"}

retPaths == ret[1][1]

retIndices == ret[1][2]

retLabelSet == ret[1][3]

(* How often x occurs in the list s.                                       *)
Count(s, x) == Cardinality({k \in 1..Len(s) : s[k] = x})

(* b holds the items of a, each as often as a does.                        *)
IsPermutation(a, b) ==
    /\ Len(a) = Len(b)
    /\ \A x \in Range(a) \cup Range(b) : Count(a, x) = Count(b, x)

(* The list of (path, label index) records of two parallel lists.          *)
Records(paths, indices) == [k \in 1..Len(paths) |-> <<paths[k], indices[k]>>]

(* The positions of s that hold x, in ascending order, and the items of s  *)
(* at the positions whose index in t is x.                                 *)
SubSeqWhere(s, t, x) ==
    LET Keep[k \in 0..Len(s)] ==
            IF k = 0 THEN <<>>
            ELSE IF t[k] = x THEN Append(Keep[k - 1], s[k]) ELSE Keep[k - 1]
    IN  Keep[Len(s)]

(* The text of a path, written out: directory, separator, name.            *)
Under(dir, name) ==
    IF dir = "gs://bucket/data/" THEN "gs://bucket/data/" \o name
    ELSE dir \o "/" \o name

IdText(id) == CASE id = 7 -> "7" [] id = 12 -> "12"

(* The path the manifest row names.                                        *)
RowPath(row) == Under(args.data_dir, IdText(row.id) \o "." \o args.file_ext)

(* The paths a listing of label's subdirectory yields.                     *)
Listed(label) ==
    LET dir == Under(args.data_dir, label)
        d == env.fs[dir]
        hits == SelectSeq(d.files, LAMBDA f : f.ext = args.file_ext)
    IN  IF d.exists
        THEN [k \in 1..Len(hits) |->
                 dir \o "/" \o hits[k].stem \o "." \o hits[k].ext]
        ELSE <<>>

(* The label values of the manifest, and the LabelSet a csv call uses.     *)
RowLabels == {env.csv[k].label : k \in 1..Len(env.csv)}

UsedLabelSet == IF args._labels = None THEN RowLabels ELSE Range(args._labels[1])

(* What the same call returns with shuffle=False.                          *)
Unshuffled ==
    IF op = "find_files"
    THEN CHOOSE r \in find_files(env.fs, args.data_dir, args.labels, FALSE,
                                 args.file_ext) : TRUE
    ELSE CHOOSE r \in find_files_with_label_csv(env, args.data_dir,
                          args.csv_fn, FALSE, args.file_ext, args.id_col,
                          args.label_col, args._labels) : TRUE

----------------------------------------------------------------------------
(* Properties                                                              *)

(* C1 -- pairing invariant, as claimed: for any equal-length paths and     *)
(* labels, shuffle_paths_labels returns two lists whose records are a      *)
(* permutation of the input records; and a labeled discovery called with   *)
(* shuffle=True returns a permutation of the records it returns with       *)
(* shuffle=False.                                                          *)
C1_PairingForAnyInput ==
    /\ (op = "shuffle_paths_labels" /\ Done
            /\ Len(args.paths) = Len(args.labels))
        => /\ Returned
           /\ Len(retPaths) = Len(retIndices)
           /\ IsPermutation(Records(args.paths, args.labels),
                            Records(retPaths, retIndices))
    /\ (Labeled /\ Done /\ args.shuffle /\ Unshuffled.exc = "ok")
        => /\ Returned
           /\ Len(retPaths) = Len(retIndices)
           /\ IsPermutation(Records(Unshuffled.value[1][1],
                                    Unshuffled.value[1][2]),
                            Records(retPaths, retIndices))

(* C1, the part the code keeps: whenever a shuffling call returns, the     *)
(* records it returns are a permutation of the records it was given.       *)
C1_PairingWhenReturned ==
    /\ (op = "shuffle_paths_labels" /\ Returned
            /\ Len(args.paths) = Len(args.labels))
        => /\ Len(retPaths) = Len(retIndices)
           /\ IsPermutation(Records(args.paths, args.labels),
                            Records(retPaths, retIndices))
    /\ (Labeled /\ Returned /\ args.shuffle)
        => /\ Len(retPaths) = Len(retIndices)
           /\ IsPermutation(Records(Unshuffled.value[1][1],
                                    Unshuffled.value[1][2]),
                            Records(retPaths, retIndices))

(* C2 -- count invariant: every result of find_files and of                *)
(* find_files_with_label_csv, shuffled or not, has as many paths as label  *)
(* indices.                                                                *)
C2_CountInvariant ==
    (Labeled /\ Returned) => Len(retPaths) = Len(retIndices)

C2_Witness ==
    /\ op = "find_files" /\ Returned /\ args.shuffle
    /\ Len(retPaths) = 2 /\ retIndices = <<1, 1>>
    /\ Listed(args.labels[1]) = <<>>

(* C3 -- index validity: every label index find_files returns is a         *)
(* position of the label-name list passed in, and every label index        *)
(* find_files_with_label_csv returns is a position of the LabelSet it      *)
(* returns, also when explicit _labels repeat a name.                      *)
C3_IndexValidity ==
    /\ (op = "find_files" /\ Returned)
        => \A k \in 1..Len(retIndices) :
               retIndices[k] \in 0..(Len(args.labels) - 1)
    /\ (op = "find_files_with_label_csv" /\ Returned)
        => \A k \in 1..Len(retIndices) :
               retIndices[k] \in 0..(Len(retLabelSet) - 1)

C3_Witness ==
    /\ op = "find_files_with_label_csv" /\ Returned
    /\ args._labels = Some(<<"cat", "cat">>)
    /\ Len(retIndices) >= 2

(* C4 -- determinism of label index assignment: without explicit labels    *)
(* the LabelSet returned is the list of the distinct label values of the   *)
(* manifest in strictly ascending order (so duplicate-free and fixed by    *)
(* the set of values alone), and the records returned are the rows' paths  *)
(* with the position of the row's label in that list, in row order when    *)
(* not shuffled and in some order when shuffled.                           *)
C4_SortedDistinctLabelSet ==
    (op = "find_files_with_label_csv" /\ Returned /\ args._labels = None)
    => LET L == retLabelSet
           Pos(v) == CHOOSE i \in 0..(Len(L) - 1) : L[i + 1] = v
           want == [k \in 1..Len(env.csv) |->
                       <<RowPath(env.csv[k]), Pos(env.csv[k].label)>>]
       IN  /\ Range(L) = RowLabels
           /\ \A k \in 1..(Len(L) - 1) : StrLess(L[k], L[k + 1])
           /\ Len(L) = Cardinality(RowLabels)
           /\ IsPermutation(want, Records(retPaths, retIndices))
           /\ ~args.shuffle => Records(retPaths, retIndices) = want

C4_Witness ==
    /\ op = "find_files_with_label_csv" /\ Returned /\ args._labels = None
    /\ [k \in 1..Len(env.csv) |-> env.csv[k].label] = <<"dog", "cat", "cat">>
    /\ retLabelSet = <<"cat", "dog">>
    /\ args.shuffle /\ retIndices = <<0, 1, 0>>

(* C5 -- with shuffle=False find_files returns normally; the label         *)
(* indices are non-decreasing, and for every position i of the label-name  *)
(* list the paths returned with index i are the listing of that label's    *)
(* subdirectory, in listing order.                                         *)
C5_DirectoryOrder ==
    (op = "find_files" /\ Done /\ ~args.shuffle)
    => /\ Returned
       /\ Len(retPaths) = Len(retIndices)
       /\ \A k \in 1..(Len(retIndices) - 1) : retIndices[k] <= retIndices[k + 1]
       /\ \A k \in 1..Len(retIndices) :
              retIndices[k] \in 0..(Len(args.labels) - 1)
       /\ \A i \in 0..(Len(args.labels) - 1) :
              /\ SubSeqWhere(retPaths, retIndices, i) = Listed(args.labels[i + 1])
              /\ Count(retIndices, i) = Len(Listed(args.labels[i + 1]))

C5_Witness ==
    /\ op = "find_files" /\ Returned /\ ~args.shuffle
    /\ args.data_dir = "data" /\ args.labels = <<"cat", "dog">>
    /\ retPaths = <<"data/cat/b.jpg", "data/cat/a.jpg", "data/dog/a.jpg">>
    /\ retIndices = <<0, 0, 1>>
    /\ Len(env.fs["data/dog"].files) = 2

(* C6 -- with shuffle=False find_files_with_label_csv returns, when it     *)
(* returns, one record per manifest row in row order: the path of row k    *)
(* is data_dir joined with "<id>.<file_ext>", its label index is a         *)
(* position of row k's label in the LabelSet used, and that LabelSet (the  *)
(* explicit one when given) is the third result; it returns whenever the   *)
(* LabelSet holds every row's label.                                       *)
C6_ManifestOrder ==
    (op = "find_files_with_label_csv" /\ Done /\ ~args.shuffle)
    => /\ Returned <=> RowLabels \subseteq UsedLabelSet
       /\ Returned =>
            /\ Len(retPaths) = Len(env.csv)
            /\ Len(retIndices) = Len(env.csv)
            /\ Range(retLabelSet) = UsedLabelSet
            /\ args._labels # None => retLabelSet = args._labels[1]
            /\ \A k \in 1..Len(env.csv) :
                   /\ retPaths[k] = RowPath(env.csv[k])
                   /\ retIndices[k] \in 0..(Len(retLabelSet) - 1)
                   /\ retLabelSet[retIndices[k] + 1] = env.csv[k].label

C6_Witness ==
    /\ op = "find_files_with_label_csv" /\ Returned /\ ~args.shuffle
    /\ args._labels = None /\ args.data_dir = "data"
    /\ retPaths = <<"data/7.jpg", "data/12.jpg", "data/7.jpg">>
    /\ retIndices = <<1, 0, 0>>
    /\ retLabelSet = <<"cat", "dog">>

C9_MissingSubdirIsNoError ==
    (op = "find_files" /\ Done /\ env.root_exists
        /\ \E l \in Range(args.labels) : ~env.fs[Under(args.data_dir, l)].exists)
    => /\ Returned
       /\ \A i \in 0..(Len(args.labels) - 1) :
              IF env.fs[Under(args.data_dir, args.labels[i + 1])].exists
              THEN IsPermutation(SubSeqWhere(retPaths, retIndices, i),
                                 Listed(args.labels[i + 1]))
              ELSE Count(retIndices, i) = 0

(* C10 -- as claimed: with shuffle=True a labeled discovery returns        *)
(* whenever it does with shuffle=False, also when nothing is found, and    *)
(* then returns the same empty lists; shuffle_paths_labels([], [])         *)
(* returns ([], []).                                                       *)
C10_EmptyShuffleReturns ==
    /\ (op = "shuffle_paths_labels" /\ Done
            /\ args.paths = <<>> /\ args.labels = <<>>)
        => (Returned /\ retPaths = <<>> /\ retIndices = <<>>)
    /\ (Labeled /\ Done /\ args.shuffle /\ Unshuffled.exc = "ok")
        => /\ Returned
           /\ Unshuffled.value[1][1] = <<>> => ret = Unshuffled.value

====
